---- MODULE Spec2Model ----
\* Assignment decision engine of the queueing simulation: ChildEnv (candidate
\* selection, observation encoding, action decoding, reward shaping, action
\* masking) and ChildPolicy (heuristic scoring policy).
\*
\* Python lists are sequences; Python index i is TLA+ index i + 1.
\* A Python dict is a function whose DOMAIN is the set of keys; the waiting
\* dict is kept as the sequence of its values in iteration (insertion) order.
\* A call's outcome is a record: kind = "None", "customer", "list", "obs",
\* "mask", "reward", "action", or "raise" for an exception that leaves the call.
EXTENDS Integers, Sequences, FiniteSets, TLC

\* ---------------------------------------------------------------- constants
MAX_VISIBLE_CUSTOMERS == 20
INVALID_CUSTOMER_ID == -1

\* ------------------------------------------------------------------- bounds
\* Environment specification: the waiting dict holds no customer or the first
\* LongQueue customers at the first decision point, at most MaxArrivals more
\* arrive (so the candidate list can exceed MAX_VISIBLE_CUSTOMERS), and at most
\* MaxDepartures of the first LeaveWindow customers of the dict leave.
LongQueue == 19
MaxArrivals == 2
MaxDepartures == 1
LeaveWindow == 3
\* Policy and reward specifications: DecisionCustomers customers wait at the
\* first decision point, with arrival times among ArrivalTimes and appointments
\* (if any) at AppointmentTime; the clock runs up to MaxTime.
DecisionCustomers == 2
MaxTime == 100

VARIABLES
    customer_waiting,        \* Env.customer_waiting: values of the dict, in iteration order
    appointments,            \* Env.appointments: customer id -> [time]
    current_working_server,  \* id of Env.current_working_server
    system_time,             \* Env.system_time
    _visible_customer_ids,   \* ChildEnv._visible_customer_ids
    nextId,                  \* id of the next customer the simulation creates
    arrivals,                \* customers that arrived since the first decision point
    obs,                     \* observation last returned by _get_obs
    action_mask,             \* info["action_mask"] handed to the policy
    lastCandidates,          \* candidate list computed by the last _get_obs that returned
    fresh,                   \* waiting set and server unchanged since that _get_obs
    result                   \* what the last operation was and what it returned

vars == << customer_waiting, appointments, current_working_server, system_time,
           _visible_customer_ids, nextId, arrivals, obs, action_mask,
           lastCandidates, fresh, result >>

\* ------------------------------------------------------------------ helpers
Min(a, b) == IF a <= b THEN a ELSE b
Max(a, b) == IF a >= b THEN a ELSE b
Abs(a) == IF a >= 0 THEN a ELSE -a

Repeat(v, n) == [ i \in 1..n |-> v ]

\* ------------------------------------------------------------------ servers
\* server id -> avg_service_time: dict{task_id: float}.  Server 1 serves every
\* task, server 2 cannot serve tasks 1 and 2 (zero and negative time), the
\* dict of server 3 has no key for task 2.
Servers ==
    [ s \in 1..3 |->
        CASE s = 1 -> [ t \in {0, 1, 2} |-> IF t = 0 THEN 5 ELSE IF t = 1 THEN 3 ELSE 4 ]
          [] s = 2 -> [ t \in {0, 1, 2} |-> IF t = 0 THEN 5 ELSE IF t = 1 THEN 0 ELSE -1 ]
          [] s = 3 -> [ t \in {0, 1} |-> IF t = 0 THEN 4 ELSE 2 ] ]

\* server.avg_service_time[task] raises KeyError when the key is absent
HasKey(server, task) == task \in DOMAIN Servers[server]

\* -------------------------------------------------- _get_candidate_customers
\* key=lambda c: (c.arrival_time, c.id), compared as Python compares tuples
KeyLess(a, b) ==
    \/ a.arrival_time < b.arrival_time
    \/ a.arrival_time = b.arrival_time /\ a.id < b.id

RECURSIVE InsertSorted(_, _)
InsertSorted(c, s) ==
    IF s = << >> THEN << c >>
    ELSE IF KeyLess(c, Head(s)) THEN << c >> \o s
    ELSE << Head(s) >> \o InsertSorted(c, Tail(s))

\* list.sort: stable, ascending by key
RECURSIVE SortByKey(_)
SortByKey(s) ==
    IF s = << >> THEN << >>
    ELSE InsertSorted(s[Len(s)], SortByKey(SubSeq(s, 1, Len(s) - 1)))

CompatibleNonNegative(server, c) == Servers[server][c.task] >= 0

Compatible(server, c) == Servers[server][c.task] > 0

_get_candidate_customers(waiting, server) ==
    IF \E i \in 1..Len(waiting) : ~HasKey(server, waiting[i].task)
    THEN [ kind |-> "raise", exc |-> "KeyError" ]
    ELSE [ kind |-> "list",
           val  |-> SortByKey(SelectSeq(waiting, LAMBDA c : Compatible(server, c))) ]

\* ------------------------------------------------------------------ _get_obs
VisibleIdsUntruncated(candidates) ==
    [ i \in 1..Len(candidates) |-> candidates[i].id ]

\* [c.id for c in candidates[:MAX_VISIBLE_CUSTOMERS]]
VisibleIds(candidates) ==
    [ i \in 1..Min(Len(candidates), MAX_VISIBLE_CUSTOMERS) |-> candidates[i].id ]

\* ids + [INVALID_CUSTOMER_ID] * (MAX_VISIBLE_CUSTOMERS - len(ids))
EncodeObs(ids) ==
    ids \o Repeat(INVALID_CUSTOMER_ID, Max(0, MAX_VISIBLE_CUSTOMERS - Len(ids)))

\* ----------------------------------------------------- _get_hold_action_number
_get_hold_action_number == MAX_VISIBLE_CUSTOMERS

\* ------------------------------------------------------------- action_masks
action_masksOffByOne(visible) ==
    LET valid_slots == Min(Len(visible), MAX_VISIBLE_CUSTOMERS)
    IN  [ i \in 1..(MAX_VISIBLE_CUSTOMERS + 1) |->
            (i - 1 <= valid_slots) \/ (i - 1 = _get_hold_action_number) ]

action_masks(visible) ==
    LET valid_slots == Min(Len(visible), MAX_VISIBLE_CUSTOMERS)
    IN  [ i \in 1..(MAX_VISIBLE_CUSTOMERS + 1) |->
            (i - 1 < valid_slots) \/ (i - 1 = _get_hold_action_number) ]

\* ------------------------------------------------- _get_customer_from_action
\* An action value is [integral, val]: integral is what
\* isinstance(action, (int, np.integer)) answers, val is its numeric value.
_get_customer_from_action(action, visible, waiting, server) ==
    IF ~action.integral THEN [ kind |-> "None" ]
    ELSE IF action.val < 0 \/ action.val >= MAX_VISIBLE_CUSTOMERS THEN [ kind |-> "None" ]
    ELSE IF action.val >= Len(visible) THEN [ kind |-> "None" ]
    ELSE LET customer_id == visible[action.val + 1]
             found == { i \in 1..Len(waiting) : waiting[i].id = customer_id }
         IN  IF found = {} THEN [ kind |-> "None" ]
             ELSE LET customer == waiting[CHOOSE i \in found : TRUE]
                  IN  IF ~HasKey(server, customer.task)
                      THEN [ kind |-> "raise", exc |-> "KeyError" ]
                      ELSE IF Servers[server][customer.task] <= 0
                      THEN [ kind |-> "None" ]
                      ELSE [ kind |-> "customer", customer |-> customer ]

\* ------------------------------------------------------------------ rewards
\* Rewards are kept exactly, in units of 1/RewardScale (the divisor 15.0 of the
\* wait-time term): x / 15.0 is x units, delay / 5.0 is 3 * delay units.
RewardScale == 15

_get_invalid_action_reward == -10 * RewardScale

WaitBonusUncapped(customer, time) ==
    Max(time - customer.arrival_time, 6 * RewardScale)

\* the term min(waiting_time / 15.0, 6.0)
WaitBonus(customer, time) ==
    Min(time - customer.arrival_time, 6 * RewardScale)

\* the term max(0.0, 4.0 - delay / 5.0), absent without appointment
PunctualityBonus(customer, time, appts) ==
    IF customer.id \in DOMAIN appts
    THEN LET delay == Abs(time - appts[customer.id].time)
         IN  Max(0, 4 * RewardScale - 3 * delay)
    ELSE 0

_get_valid_reward(customer, time, appts) ==
    2 * RewardScale + WaitBonus(customer, time) + PunctualityBonus(customer, time, appts)

\* ----------------------------------------------------------------- policy
\* Scores are kept exactly, in units of 1/ScoreScale (the tie-break weight 1e-6).
ScoreScale == 1000000

ScoreHigherIdFirst(customer, sim_time, appts) ==
    LET waiting_time == sim_time - customer.arrival_time
        bonus ==
            IF customer.id \in DOMAIN appts
            THEN LET t == appts[customer.id].time
                     appointment_delta == Abs(sim_time - t)
                 IN  Max(0, 120 - 4 * appointment_delta)
                     - (IF sim_time < t - 30 THEN (t - sim_time - 30) * 2 ELSE 0)
            ELSE 0
    IN  (waiting_time + bonus) * ScoreScale + customer.id

Score(customer, sim_time, appts) ==
    LET waiting_time == sim_time - customer.arrival_time
        bonus ==
            IF customer.id \in DOMAIN appts
            THEN LET t == appts[customer.id].time
                     appointment_delta == Abs(sim_time - t)
                 IN  Max(0, 120 - 4 * appointment_delta)
                     - (IF sim_time < t - 30 THEN (t - sim_time - 30) * 2 ELSE 0)
            ELSE 0
    IN  (waiting_time + bonus) * ScoreScale - customer.id

\* [a for a in valid_actions if a != hold_action], as Python indices, ascending
RECURSIVE ServiceActions(_, _)
ServiceActions(mask, k) ==
    IF k > Len(mask) THEN << >>
    ELSE (IF mask[k] /\ k - 1 # Len(mask) - 1 THEN << k - 1 >> ELSE << >>)
         \o ServiceActions(mask, k + 1)

\* score > best_score, where best_score starts at -inf (scored = FALSE)
Better(score, best) == ~best.scored \/ score > best.score

\* the for loop of _predict from position k on; best = [action, score, scored]
RECURSIVE PredictLoop(_, _, _, _, _, _, _)
PredictLoop(actions, k, best, o, sim_time, waiting, appts) ==
    IF k > Len(actions) THEN [ kind |-> "action", val |-> best.action ]
    ELSE LET action == actions[k]
         IN  IF action + 1 > Len(o) THEN [ kind |-> "raise", exc |-> "IndexError" ]
             ELSE LET customer_id == o[action + 1]
                      found == { i \in 1..Len(waiting) : waiting[i].id = customer_id }
                  IN  IF customer_id < 0 \/ found = {}
                      THEN PredictLoop(actions, k + 1, best, o, sim_time, waiting, appts)
                      ELSE LET customer == waiting[CHOOSE i \in found : TRUE]
                               score == Score(customer, sim_time, appts)
                           IN  IF Better(score, best)
                               THEN PredictLoop(actions, k + 1,
                                        [ action |-> action, score |-> score, scored |-> TRUE ],
                                        o, sim_time, waiting, appts)
                               ELSE PredictLoop(actions, k + 1, best, o, sim_time, waiting, appts)

\* ChildPolicy._predict(obs, info): mask is info.get("action_mask", []),
\* sim_time is info.get("system_time", 0.0)
_predict(o, mask, sim_time, waiting, appts) ==
    IF mask = << >> THEN [ kind |-> "action", val |-> 0 ]
    ELSE LET hold_action == Len(mask) - 1
             service_actions == ServiceActions(mask, 1)
         IN  IF service_actions = << >> THEN [ kind |-> "action", val |-> hold_action ]
             ELSE PredictLoop(service_actions, 1,
                      [ action |-> hold_action, score |-> 0, scored |-> FALSE ],
                      o, sim_time, waiting, appts)

\* ============================================================ environment
\* The simulation around ChildEnv: customers arrive and leave, the selected
\* server changes, and the harness calls the ChildEnv methods in any order.

\* task, arrival time and appointments of the customers the simulation creates
ScenarioTask(id) == IF id % 6 = 3 THEN 2 ELSE IF id % 4 = 1 THEN 1 ELSE 0
ScenarioArrival(id) == (id * 5) % 7
ScenarioAppointments == [ c \in {2, 5} |-> [ time |-> 8 ] ]
\* simulation time of the environment specification
EnvTime == 10

\* action values handed to the decoder
Actions ==
    [ integral : {TRUE}, val : -1..(MAX_VISIBLE_CUSTOMERS + 2) ]
    \cup [ integral : {FALSE}, val : {0, 1} ]

Customer(id) ==
    [ id |-> id, arrival_time |-> ScenarioArrival(id), task |-> ScenarioTask(id) ]

Init ==
    /\ \E n \in {0, LongQueue} :
         /\ customer_waiting = [ i \in 1..n |-> Customer(i) ]
         /\ nextId = n + 1
         /\ arrivals = 0
    /\ appointments = ScenarioAppointments
    /\ current_working_server = 1
    /\ system_time = EnvTime
    /\ _visible_customer_ids = << >>
    /\ obs = << >>
    /\ action_mask = << >>
    /\ lastCandidates = << >>
    /\ fresh = FALSE
    /\ result = [ op |-> "init", kind |-> "None" ]

\* a customer enters the waiting dict
Arrive ==
    /\ arrivals < MaxArrivals
    /\ customer_waiting' = Append(customer_waiting, Customer(nextId))
    /\ nextId' = nextId + 1
    /\ arrivals' = arrivals + 1
    /\ fresh' = FALSE
    /\ result' = [ op |-> "arrive", kind |-> "None" ]
    /\ UNCHANGED << appointments, current_working_server, system_time,
                    _visible_customer_ids, obs, action_mask, lastCandidates >>

\* a customer leaves the waiting dict (served, or gone)
Leave ==
    /\ (nextId - 1) - Len(customer_waiting) < MaxDepartures
    /\ \E i \in 1..Min(Len(customer_waiting), LeaveWindow) :
         customer_waiting' = SubSeq(customer_waiting, 1, i - 1)
                             \o SubSeq(customer_waiting, i + 1, Len(customer_waiting))
    /\ fresh' = FALSE
    /\ result' = [ op |-> "leave", kind |-> "None" ]
    /\ UNCHANGED << appointments, current_working_server, system_time,
                    _visible_customer_ids, nextId, arrivals, obs, action_mask, lastCandidates >>

\* the simulation selects another server
SelectServer ==
    /\ \E s \in DOMAIN Servers :
         /\ s # current_working_server
         /\ current_working_server' = s
    /\ fresh' = FALSE
    /\ result' = [ op |-> "select_server", kind |-> "None" ]
    /\ UNCHANGED << customer_waiting, appointments, system_time,
                    _visible_customer_ids, nextId, arrivals, obs, action_mask, lastCandidates >>

\* a call of _get_candidate_customers()
GetCandidateCustomers ==
    /\ result' = [ op |-> "candidates" ]
                 @@ _get_candidate_customers(customer_waiting, current_working_server)
    /\ UNCHANGED << customer_waiting, appointments, current_working_server, system_time,
                    _visible_customer_ids, nextId, arrivals, obs, action_mask, lastCandidates, fresh >>

\* a call of _get_obs(): the exception of the selector leaves the call before
\* the table is written
GetObs ==
    LET candidates == _get_candidate_customers(customer_waiting, current_working_server)
    IN  IF candidates.kind = "raise"
        THEN /\ result' = [ op |-> "get_obs" ] @@ candidates
             /\ UNCHANGED << customer_waiting, appointments, current_working_server,
                             system_time, _visible_customer_ids, nextId, arrivals, obs,
                             action_mask, lastCandidates, fresh >>
        ELSE /\ _visible_customer_ids' = VisibleIds(candidates.val)
             /\ obs' = EncodeObs(_visible_customer_ids')
             /\ lastCandidates' = candidates.val
             /\ fresh' = TRUE
             /\ result' = [ op |-> "get_obs", kind |-> "obs", val |-> obs' ]
             /\ UNCHANGED << customer_waiting, appointments, current_working_server,
                             system_time, nextId, arrivals, action_mask >>

GetCustomerFromActionConsumesSlot ==
    /\ \E action \in Actions :
         /\ result' = [ op |-> "decode", action |-> action ]
                      @@ _get_customer_from_action(action, _visible_customer_ids,
                                                   customer_waiting, current_working_server)
         /\ _visible_customer_ids' =
                IF result'.kind = "customer"
                THEN [ i \in 1..(Len(_visible_customer_ids) - 1) |->
                         IF i <= action.val THEN _visible_customer_ids[i]
                         ELSE _visible_customer_ids[i + 1] ]
                ELSE _visible_customer_ids
    /\ UNCHANGED << customer_waiting, appointments, current_working_server, system_time,
                    nextId, arrivals, obs, action_mask, lastCandidates, fresh >>

\* a call of _get_customer_from_action(action)
GetCustomerFromAction ==
    /\ \E action \in Actions :
         result' = [ op |-> "decode", action |-> action ]
                   @@ _get_customer_from_action(action, _visible_customer_ids,
                                                customer_waiting, current_working_server)
    /\ UNCHANGED << customer_waiting, appointments, current_working_server, system_time,
                    _visible_customer_ids, nextId, arrivals, obs, action_mask, lastCandidates, fresh >>

\* a call of action_masks()
ActionMasks ==
    /\ result' = [ op |-> "action_masks", kind |-> "mask",
                   val |-> action_masks(_visible_customer_ids) ]
    /\ UNCHANGED << customer_waiting, appointments, current_working_server, system_time,
                    _visible_customer_ids, nextId, arrivals, obs, action_mask,
                    lastCandidates, fresh >>

\* a call of _get_valid_reward(customer) for a waiting customer
GetValidReward ==
    /\ \E i \in 1..Len(customer_waiting) :
         result' = [ op |-> "valid_reward", kind |-> "reward",
                     customer |-> customer_waiting[i],
                     val |-> _get_valid_reward(customer_waiting[i], system_time, appointments) ]
    /\ UNCHANGED << customer_waiting, appointments, current_working_server, system_time,
                    _visible_customer_ids, nextId, arrivals, obs, action_mask, lastCandidates, fresh >>

\* a call of _get_invalid_action_reward()
GetInvalidActionReward ==
    /\ result' = [ op |-> "invalid_reward", kind |-> "reward",
                   val |-> _get_invalid_action_reward ]
    /\ UNCHANGED << customer_waiting, appointments, current_working_server, system_time,
                    _visible_customer_ids, nextId, arrivals, obs, action_mask, lastCandidates, fresh >>

Next ==
    \/ Arrive
    \/ Leave
    \/ SelectServer
    \/ GetCandidateCustomers
    \/ GetObs
    \/ GetCustomerFromAction
    \/ ActionMasks
    \/ GetValidReward
    \/ GetInvalidActionReward

Spec == Init /\ [][Next]_vars

\* ======================================================== policy and reward
\* ChildPolicy._predict and _get_valid_reward over customers whose arrival
\* times and appointments are drawn freely, with a running clock.  Every task
\* is 0 and the server is 1, so the selector never raises here.
ArrivalTimes == {0, 8}
AppointmentTime == 50

AllTrue == Repeat(TRUE, MAX_VISIBLE_CUSTOMERS + 1)
AllFalse == Repeat(FALSE, MAX_VISIBLE_CUSTOMERS + 1)

InitDecision ==
    /\ \E arr \in [ 1..DecisionCustomers -> ArrivalTimes ] :
         /\ customer_waiting =
                [ i \in 1..DecisionCustomers |->
                    [ id |-> i, arrival_time |-> arr[i], task |-> 0 ] ]
         /\ system_time = CHOOSE t \in ArrivalTimes : \A u \in ArrivalTimes : u <= t
    /\ \E withAppt \in SUBSET (1..DecisionCustomers) :
         appointments = [ c \in withAppt |-> [ time |-> AppointmentTime ] ]
    /\ nextId = DecisionCustomers + 1
    /\ arrivals = 0
    /\ current_working_server = 1
    /\ _visible_customer_ids = << >>
    /\ obs = << >>
    /\ action_mask = << >>
    /\ lastCandidates = << >>
    /\ fresh = FALSE
    /\ result = [ op |-> "init", kind |-> "None" ]

\* the simulation clock advances
Tick ==
    /\ system_time < MaxTime
    /\ system_time' = system_time + 1
    /\ result' = [ op |-> "tick", kind |-> "None" ]
    /\ UNCHANGED << customer_waiting, appointments, current_working_server,
                    _visible_customer_ids, nextId, arrivals, obs, action_mask,
                    lastCandidates, fresh >>

\* the harness fills info["action_mask"]: with the mask of the environment,
\* with nothing, or with a mask that does not come from the environment
SetInfoMask ==
    /\ \E m \in { action_masks(_visible_customer_ids), << >>, AllTrue, AllFalse } :
         /\ m # action_mask
         /\ action_mask' = m
    /\ result' = [ op |-> "info", kind |-> "None" ]
    /\ UNCHANGED << customer_waiting, appointments, current_working_server, system_time,
                    _visible_customer_ids, nextId, arrivals, obs, lastCandidates, fresh >>

\* a call of ChildPolicy._predict(obs, info) with the last observation
Predict ==
    /\ obs # << >>
    /\ result' = [ op |-> "predict" ]
                 @@ _predict(obs, action_mask, system_time, customer_waiting, appointments)
    /\ UNCHANGED << customer_waiting, appointments, current_working_server, system_time,
                    _visible_customer_ids, nextId, arrivals, obs, action_mask,
                    lastCandidates, fresh >>

NextPolicy ==
    \/ Tick
    \/ Leave
    \/ GetObs
    \/ SetInfoMask
    \/ Predict

SpecPolicy == InitDecision /\ [][NextPolicy]_vars

NextReward ==
    \/ Tick
    \/ GetValidReward
    \/ GetInvalidActionReward

SpecReward == InitDecision /\ [][NextReward]_vars

\* =============================================================== properties
\* In every property, result describes the last operation, and the state is
\* the one that operation left: every operation overwrites result.

\* the populated length of the visible-slot table
PopulatedCount == Len(_visible_customer_ids)

\* positions in the waiting dict of the customer with this id
WaitingAt(id) == { i \in 1..Len(customer_waiting) : customer_waiting[i].id = id }

\* "the server's average service time for the task is > 0", a task without
\* entry in the capability map counting as not served
ServiceTimePositive(server, task) ==
    /\ task \in DOMAIN Servers[server]
    /\ Servers[server][task] > 0

\* the selected server's map has no entry for the task of some waiting customer
SomeTaskUnmapped ==
    \E i \in 1..Len(customer_waiting) :
        customer_waiting[i].task \notin DOMAIN Servers[current_working_server]

\* ----------------------------------------------------------------------- C1
\* the action selects a populated slot whose customer still waits and can be served
DecodableAction(a) ==
    /\ a.integral
    /\ 0 <= a.val /\ a.val < MAX_VISIBLE_CUSTOMERS
    /\ a.val < PopulatedCount
    /\ \E i \in WaitingAt(_visible_customer_ids[a.val + 1]) :
         ServiceTimePositive(current_working_server, customer_waiting[i].task)

\* C1: _get_customer_from_action(action) returns a customer if and only if the
\* action is an integer in 0..19 below the populated slot count, the id in
\* that slot is in the waiting set and the selected server's service time for
\* the customer's task is > 0; the customer returned is the waiting customer
\* with that id; in every other case the call returns None.
C1_DecodeIffValid ==
    result.op = "decode" =>
        IF DecodableAction(result.action)
        THEN /\ result.kind = "customer"
             /\ result.customer.id = _visible_customer_ids[result.action.val + 1]
             /\ \E i \in WaitingAt(result.customer.id) : customer_waiting[i] = result.customer
        ELSE result.kind = "None"

\* ----------------------------------------------------------------------- C2
\* C2: action_masks() returns 21 booleans; entry i < 20 is True exactly when
\* i is below the populated slot count, entry HOLD = 20 is True, and the number
\* of True entries minus one is the populated slot count.
C2_MaskMatchesTable ==
    result.op = "action_masks" =>
        /\ Len(result.val) = MAX_VISIBLE_CUSTOMERS + 1
        /\ \A i \in 0..(MAX_VISIBLE_CUSTOMERS - 1) :
             result.val[i + 1] <=> (i < PopulatedCount)
        /\ result.val[MAX_VISIBLE_CUSTOMERS + 1] = TRUE
        /\ Cardinality({ i \in 1..Len(result.val) : result.val[i] }) - 1 = PopulatedCount

\* the mask was computed over a partly filled table
C2_Witness ==
    /\ result.op = "action_masks"
    /\ 0 < PopulatedCount /\ PopulatedCount < MAX_VISIBLE_CUSTOMERS

\* ----------------------------------------------------------------------- C3
\* C3: when the selector hands _get_obs() a candidate list of length n, the
\* call returns; the table then holds the ids of the first min(n, 20)
\* candidates in order, and the observation has exactly 20 entries, the table
\* first and -1 in every remaining entry.
C3_ObsEncodesCandidates ==
    LET candidates == _get_candidate_customers(customer_waiting, current_working_server)
    IN  (result.op = "get_obs" /\ candidates.kind = "list") =>
            LET n == Len(candidates.val)
                m == IF n < MAX_VISIBLE_CUSTOMERS THEN n ELSE MAX_VISIBLE_CUSTOMERS
            IN  /\ result.kind = "obs"
                /\ Len(_visible_customer_ids) = m
                /\ \A i \in 1..m : _visible_customer_ids[i] = candidates.val[i].id
                /\ Len(result.val) = MAX_VISIBLE_CUSTOMERS
                /\ \A i \in 1..m : result.val[i] = _visible_customer_ids[i]
                /\ \A i \in (m + 1)..MAX_VISIBLE_CUSTOMERS : result.val[i] = -1

\* an observation of more candidates than slots
C3_Witness ==
    /\ result.op = "get_obs"
    /\ result.kind = "obs"
    /\ Len(lastCandidates) > MAX_VISIBLE_CUSTOMERS
    /\ fresh

\* ----------------------------------------------------------------------- C4
\* C4: _get_candidate_customers() returns exactly the waiting customers whose
\* task has a strictly positive service time on the selected server, each
\* once, in ascending order of arrival time and, among equal arrival times, of id.
C4_CandidatesFilteredAndSorted ==
    result.op = "candidates" =>
        /\ result.kind = "list"
        /\ { result.val[i] : i \in 1..Len(result.val) }
             = { customer_waiting[i] : i \in
                   { j \in 1..Len(customer_waiting) :
                       ServiceTimePositive(current_working_server, customer_waiting[j].task) } }
        /\ \A i, j \in 1..Len(result.val) :
             i < j =>
               \/ result.val[i].arrival_time < result.val[j].arrival_time
               \/ /\ result.val[i].arrival_time = result.val[j].arrival_time
                  /\ result.val[i].id < result.val[j].id

\* ----------------------------------------------------------------------- C5
\* the table holds the first at most 20 candidate ids of the last observation
TableReflectsLastObs ==
    /\ Len(_visible_customer_ids) <= MAX_VISIBLE_CUSTOMERS
    /\ Len(_visible_customer_ids) <= Len(lastCandidates)
    /\ Len(lastCandidates) <= MAX_VISIBLE_CUSTOMERS
         => Len(_visible_customer_ids) = Len(lastCandidates)
    /\ Len(lastCandidates) > MAX_VISIBLE_CUSTOMERS
         => Len(_visible_customer_ids) = MAX_VISIBLE_CUSTOMERS
    /\ \A i \in 1..Len(_visible_customer_ids) :
         _visible_customer_ids[i] = lastCandidates[i].id

\* decoding, masking and the rewards change nothing; only _get_obs writes the table
QueriesLeaveState ==
    /\ result'.op \in { "decode", "action_masks", "valid_reward", "invalid_reward" }
         => UNCHANGED << _visible_customer_ids, customer_waiting, appointments,
                         current_working_server >>
    /\ _visible_customer_ids' # _visible_customer_ids => result'.op = "get_obs"

\* C5: the visible-slot table is written only by _get_obs and always holds the
\* first at most 20 candidate ids of the most recent observation;
\* _get_customer_from_action, action_masks and the two reward methods leave
\* the table, the waiting set, the appointments and the selected server unchanged.
C5_OnlyObsWritesTable ==
    /\ []TableReflectsLastObs
    /\ [][QueriesLeaveState]_vars

\* a decode returned a customer while the table was stale against the waiting set
C5_Witness ==
    /\ result.op = "decode"
    /\ result.kind = "customer"
    /\ ~fresh
    /\ Len(_visible_customer_ids) > 0
    /\ Len(customer_waiting) # Len(lastCandidates)

\* ----------------------------------------------------------------------- C9
\* C9: when the selected server's capability map has no entry for a waiting
\* customer's task, nothing is raised: the selector returns the other
\* candidates, and decoding a slot that holds such a customer returns None.
C9_MissingKeyMeansNotCapable ==
    SomeTaskUnmapped =>
        /\ result.op = "candidates" =>
             /\ result.kind = "list"
             /\ \A i \in 1..Len(result.val) :
                  ServiceTimePositive(current_working_server, result.val[i].task)
        /\ ( /\ result.op = "decode"
             /\ result.action.integral
             /\ 0 <= result.action.val
             /\ result.action.val < PopulatedCount
             /\ \E i \in WaitingAt(_visible_customer_ids[result.action.val + 1]) :
                  customer_waiting[i].task \notin DOMAIN Servers[current_working_server] )
           => result.kind = "None"

\* ---------------------------------------------------------------------- C10
\* C10: while the waiting set and the selected server are as they were at the
\* most recent observation, every non-HOLD action the mask allows decodes to a
\* customer, the waiting customer whose id is the observation's entry.
C10_MaskedActionsDecode ==
    ( /\ fresh
      /\ result.op = "decode"
      /\ result.action.integral
      /\ result.action.val \in 0..(MAX_VISIBLE_CUSTOMERS - 1)
      /\ action_masks(_visible_customer_ids)[result.action.val + 1] )
    => /\ result.kind = "customer"
       /\ result.customer.id = obs[result.action.val + 1]
       /\ \E i \in WaitingAt(result.customer.id) : customer_waiting[i] = result.customer

\* a masked-in action was decoded right after an observation that left out a
\* waiting customer the server cannot serve
C10_Witness ==
    /\ fresh
    /\ result.op = "decode"
    /\ result.kind = "customer"
    /\ Len(_visible_customer_ids) < Len(customer_waiting)
    /\ Len(customer_waiting) < MAX_VISIBLE_CUSTOMERS

\* ----------------------------------------------------------------------- C6
\* the legal non-HOLD actions of the mask handed to the policy
LegalServiceActions ==
    { a \in 0..(Len(action_mask) - 2) : action_mask[a + 1] }

\* those whose observation entry is a non-negative id of a waiting customer
ScorableActions ==
    { a \in LegalServiceActions : obs[a + 1] >= 0 /\ WaitingAt(obs[a + 1]) # {} }

CustomerOfAction(a) == customer_waiting[CHOOSE i \in WaitingAt(obs[a + 1]) : TRUE]

\* the score without its tie-break term
ScoreTerms(c) ==
    LET wait == system_time - c.arrival_time
    IN  IF c.id \in DOMAIN appointments
        THEN LET t == appointments[c.id].time
                 d == IF system_time >= t THEN system_time - t ELSE t - system_time
                 near == IF 120 - 4 * d > 0 THEN 120 - 4 * d ELSE 0
                 early == IF system_time < t - 30 THEN 2 * (t - system_time - 30) ELSE 0
             IN  wait + near - early
        ELSE wait

C7_NoLegalActionMeansHold ==
    (result.op = "predict" /\ \A i \in 1..Len(action_mask) : ~action_mask[i]) =>
        /\ result.kind = "action"
        /\ result.val = _get_hold_action_number

\* ----------------------------------------------------------------------- C8
\* C8: _get_valid_reward returns 2.0 + W + P with W = min((time - arrival)/15, 6)
\* in [0, 6] and P = max(0, 4 - |time - appointment|/5) in [0, 4], P = 0 without
\* appointment; so the reward lies in [2.0, 12.0], and a customer who has waited
\* at least as long, with the same P, gets at least as much.  (In units of 1/15.)
C8_ValidRewardBounded ==
    result.op = "valid_reward" =>
        LET c == result.customer
            wait == system_time - c.arrival_time
            W == IF wait <= 90 THEN wait ELSE 90
            P == IF c.id \in DOMAIN appointments
                 THEN LET t == appointments[c.id].time
                          d == IF system_time >= t THEN system_time - t ELSE t - system_time
                      IN  IF 60 - 3 * d > 0 THEN 60 - 3 * d ELSE 0
                 ELSE 0
        IN  /\ result.val = 30 + W + P
            /\ 0 <= W /\ W <= 90
            /\ 0 <= P /\ P <= 60
            /\ 30 <= result.val /\ result.val <= 180
            /\ \A i \in 1..Len(customer_waiting) :
                 LET o == customer_waiting[i]
                 IN  ( /\ system_time - o.arrival_time >= wait
                       /\ PunctualityBonus(o, system_time, appointments) = P )
                     => _get_valid_reward(o, system_time, appointments) >= result.val

\* a reward whose wait-time bonus is at its cap, for the customer who waited
\* less long than another one
C8_Witness ==
    /\ result.op = "valid_reward"
    /\ system_time - result.customer.arrival_time > 90
    /\ \E i \in 1..Len(customer_waiting) :
         customer_waiting[i].arrival_time < result.customer.arrival_time

====
